---- MODULE Spec2Model ----
(***************************************************************************)
(* ipisp: the session resolver (whoisClient, Cymru netcat interface) and   *)
(* the directory resolver (dnsClient).  Texts are sequences of one-letter  *)
(* strings, so that the byte-level library calls the resolvers make        *)
(* (HasPrefix, TrimLeft, TrimSpace, Split, Atoi) are computed, not assumed.*)
(***************************************************************************)
EXTENDS Integers, Sequences, FiniteSets, TLC

Nil == "nil"

\* ------------------------------------------------------------------ bounds
\* Calls made on one resolver in a run.
MaxCalls == 2
\* Longest input slice of a batch call.
MaxN == 2
\* Longest input slice of a batch call when several callers share the client.
MaxNShared == 1
\* Inputs of a batch of the directory resolver.
MaxDnsN == 2

\* --------------------------------------------------------- program constants
netcatIPTokensLength == 7
netcatASNTokensLength == 5

\* ------------------------------------------------------- byte-string library
Space == {" ", "\t"}

Digit == [c \in {"0", "1", "2", "3", "4", "5", "6", "7", "8", "9"} |->
            CASE c = "0" -> 0 [] c = "1" -> 1 [] c = "2" -> 2 [] c = "3" -> 3
              [] c = "4" -> 4 [] c = "5" -> 5 [] c = "6" -> 6 [] c = "7" -> 7
              [] c = "8" -> 8 [] c = "9" -> 9]

\* bytes.HasPrefix(s, prefix)
HasPrefix(s, prefix) ==
    /\ Len(s) >= Len(prefix)
    /\ SubSeq(s, 1, Len(prefix)) = prefix

\* bytes.TrimLeft(s, cutset): drops every leading byte that is in cutset.
TrimLeft(s, cutset) ==
    LET keep == {i \in DOMAIN s : s[i] \notin cutset}
    IN  IF keep = {} THEN <<>>
        ELSE SubSeq(s, CHOOSE i \in keep : \A j \in keep : i <= j, Len(s))

\* The other end of the same trimming (bytes.TrimRight).
TrimRight(s, cutset) ==
    LET keep == {i \in DOMAIN s : s[i] \notin cutset}
    IN  IF keep = {} THEN <<>>
        ELSE SubSeq(s, 1, CHOOSE i \in keep : \A j \in keep : j <= i)

\* bytes.TrimSpace(s)
TrimSpace(s) == TrimRight(TrimLeft(s, Space), Space)

\* bytes.Split(s, []byte{sep}): the fields between the separators, one more
\* than there are separators.
SplitAt(s, at) ==
    [k \in 1..(Len(at) + 1) |->
        SubSeq(s, IF k = 1 THEN 1 ELSE at[k - 1] + 1,
                  IF k = Len(at) + 1 THEN Len(s) ELSE at[k] - 1)]

Split(s, sep) ==
    SplitAt(s, SelectSeq([i \in DOMAIN s |-> i], LAMBDA i : s[i] = sep))

\* Value of a digit string, most significant digit first.
RECURSIVE DigitsValue(_, _)
DigitsValue(s, acc) ==
    IF s = <<>> THEN acc ELSE DigitsValue(Tail(s), 10 * acc + Digit[Head(s)])

\* strconv.Atoi(s): an optional sign, then one or more decimal digits.
Atoi(s) ==
    LET signed == s /= <<>> /\ Head(s) \in {"+", "-"}
        body   == IF signed THEN Tail(s) ELSE s
    IN  IF body = <<>> \/ \E i \in 1..Len(body) : body[i] \notin DOMAIN Digit
        THEN [ok |-> FALSE, val |-> 0]
        ELSE [ok |-> TRUE,
              val |-> IF signed /\ Head(s) = "-" THEN 0 - DigitsValue(body, 0)
                      ELSE DigitsValue(body, 0)]

\* strconv.Itoa for the non-negative numbers the model uses.
RECURSIVE Itoa(_)
Itoa(n) ==
    LET d == CHOOSE c \in DOMAIN Digit : Digit[c] = n % 10
    IN  IF n < 10 THEN <<d>> ELSE Append(Itoa(n \div 10), d)


\* ------------------------------------------------- texts used in the model
Pipe == "|"
Txt_Error == <<"E", "r", "r", "o", "r", ":", " ">>
Txt_end == <<"e", "n", "d">>
Txt_begin == <<"b", "e", "g", "i", "n">>
Txt_verbose == <<"v", "e", "r", "b", "o", "s", "e">>
Txt_hello == <<"B", "u", "l", "k">>
Txt_US == <<"U", "S">>
Txt_NA == <<"N", "A">>
Txt_arin == <<"r">>
Txt_name == <<"n">>
Txt_date == <<"2", "0", "0", "1", "-", "0", "2", "-", "0", "3">>
Txt_no_match == <<"n", "o", " ", "m", "a", "t", "c", "h">>
Txt_rate == <<"r", "a", "t", "e">>

\* Addresses and AS numbers the callers ask about.
IPs == {<<"a">>}
ASNs == {7}

\* ------------------------------------------------ external value contracts
\* net.IP.String and net.ParseIP: an address and its literal text.
IPString(ip) == ip
ParseIP(s) == IF s \in IPs THEN s ELSE <<>>

\* net.ParseCIDR: "<address>/<prefix length>", anything else is an error.
ParseCIDR(s) ==
    IF /\ Len(s) = 3
       /\ <<s[1]>> \in IPs
       /\ s[2] = "/"
       /\ s[3] \in DOMAIN Digit
    THEN [ok |-> TRUE, net |-> s]
    ELSE [ok |-> FALSE, net |-> <<>>]

\* ASN.String: the decimal text of the number, as sent on the wire.
ASNString(a) == Itoa(a)

\* NewCountryFromCode: a known code gives the country, any other an error
\* and the zero Country.
CountryCodes == {Txt_US}
NewCountryFromCode(code) ==
    IF code \in CountryCodes THEN [ok |-> TRUE, val |-> code]
    ELSE [ok |-> FALSE, val |-> <<>>]

\* time.Parse("2006-01-02", s): a calendar date, or an error and the zero time.
ValidDates == {Txt_date}
ParseDate(s) ==
    IF s \in ValidDates THEN [ok |-> TRUE, val |-> s]
    ELSE [ok |-> FALSE, val |-> <<>>]

\* NewName wraps the organisation name.
NewName(s) == s

\* The zero Response, and the fields a lookup fills in.
ZeroResponse ==
    [ASN |-> 0, IP |-> <<>>, Range |-> <<>>, Country |-> <<>>,
     Registry |-> <<>>, Allocated |-> <<>>, Name |-> <<>>]

\* ------------------------------------------------------------------ errors
NoErr == [kind |-> "nil", msg |-> <<>>]
ErrUnexpectedTokens == [kind |-> "ErrUnexpectedTokens", msg |-> <<>>]
ErrorsNew(msg) == [kind |-> "errors.New", msg |-> msg]
ErrAtoi == [kind |-> "strconv.Atoi", msg |-> <<>>]
ErrParseCIDR == [kind |-> "net.ParseCIDR", msg |-> <<>>]
ErrFlush == [kind |-> "bufio.Flush", msg |-> <<>>]
ErrDial == [kind |-> "net.DialTimeout", msg |-> <<>>]
ErrScan == [kind |-> "bufio.Scanner.Err", msg |-> <<>>]
ErrIndexOutOfRange == [kind |-> "panic: index out of range", msg |-> <<>>]

\* --------------------------------------------------------- the read loops
\* for i := range tokens { tokens[i] = bytes.TrimSpace(tokens[i]) }
TrimTokens(tokens) == [i \in DOMAIN tokens |-> TrimSpace(tokens[i])]

\* Capacity of a slice after append(resp, re) (runtime growslice).
AppendCap(len, cap) ==
    IF len + 1 <= cap THEN cap
    ELSE IF len + 1 > 2 * cap THEN len + 1 ELSE 2 * cap

\* resp = append(resp, re); if len(resp) == cap(resp) { finished = true }
AppendResponse(resp, cap, re) ==
    [resp |-> Append(resp, re),
     cap  |-> AppendCap(Len(resp), cap),
     err  |-> NoErr,
     next |-> IF Len(resp) + 1 = AppendCap(Len(resp), cap)
              THEN "finished" ELSE "scan"]

\* A return statement inside the loop body.
ReturnFromLoop(resp, cap, e) ==
    [resp |-> resp, cap |-> cap, err |-> e, next |-> "return"]

\* bytes.TrimSpace(bytes.TrimLeft(raw, "Error: "))
ErrorLineMessage(raw) ==
    TrimSpace(TrimLeft(raw, {Txt_Error[i] : i \in DOMAIN Txt_Error}))

\* One pass of the body of LookupIPs' read loop over the scanned line raw.
LookupIPsBody(raw, resp, cap) ==
    LET tokens == TrimTokens(Split(raw, Pipe))
        asn    == Atoi(tokens[1])
        range  == ParseCIDR(tokens[3])
        re     == [ASN       |-> asn.val,
                   IP        |-> ParseIP(tokens[2]),
                   Range     |-> range.net,
                   Country   |-> NewCountryFromCode(tokens[4]).val,
                   Registry  |-> tokens[5],
                   Allocated |-> ParseDate(tokens[6]).val,
                   Name      |-> NewName(tokens[7])]
    IN  IF HasPrefix(raw, Txt_Error)
        THEN ReturnFromLoop(resp, cap, ErrorsNew(ErrorLineMessage(raw)))
        ELSE IF Len(Split(raw, Pipe)) /= netcatIPTokensLength
        THEN ReturnFromLoop(resp, cap, ErrUnexpectedTokens)
        ELSE IF ~asn.ok THEN ReturnFromLoop(resp, cap, ErrAtoi)
        ELSE IF ~range.ok THEN ReturnFromLoop(resp, cap, ErrParseCIDR)
        ELSE AppendResponse(resp, cap, re)

LookupASNsBody_SkipsShort(raw, resp, cap) ==
    LET tokens == TrimTokens(Split(raw, Pipe))
        asn    == Atoi(tokens[1])
        re     == [ASN       |-> asn.val,
                   IP        |-> <<>>,
                   Range     |-> <<>>,
                   Country   |-> NewCountryFromCode(tokens[2]).val,
                   Registry  |-> tokens[3],
                   Allocated |-> ParseDate(tokens[4]).val,
                   Name      |-> NewName(tokens[5])]
    IN  IF HasPrefix(raw, Txt_Error)
        THEN ReturnFromLoop(resp, cap, ErrorsNew(ErrorLineMessage(raw)))
        ELSE IF Len(Split(raw, Pipe)) /= netcatASNTokensLength
        THEN [resp |-> resp, cap |-> cap, err |-> NoErr, next |-> "scan"]
        ELSE IF ~asn.ok THEN ReturnFromLoop(resp, cap, ErrAtoi)
        ELSE AppendResponse(resp, cap, re)

\* One pass of the body of LookupASNs' read loop over the scanned line raw.
LookupASNsBody(raw, resp, cap) ==
    LET tokens == TrimTokens(Split(raw, Pipe))
        asn    == Atoi(tokens[1])
        re     == [ASN       |-> asn.val,
                   IP        |-> <<>>,
                   Range     |-> <<>>,
                   Country   |-> NewCountryFromCode(tokens[2]).val,
                   Registry  |-> tokens[3],
                   Allocated |-> ParseDate(tokens[4]).val,
                   Name      |-> NewName(tokens[5])]
    IN  IF HasPrefix(raw, Txt_Error)
        THEN ReturnFromLoop(resp, cap, ErrorsNew(ErrorLineMessage(raw)))
        ELSE IF Len(Split(raw, Pipe)) /= netcatASNTokensLength
        THEN ReturnFromLoop(resp, cap, ErrUnexpectedTokens)
        ELSE IF ~asn.ok THEN ReturnFromLoop(resp, cap, ErrAtoi)
        ELSE AppendResponse(resp, cap, re)

\* ---------------------------------------------------- the service's lines
RECURSIVE Join(_)
Join(fields) ==
    IF Len(fields) = 1 THEN fields[1]
    ELSE fields[1] \o <<Pipe>> \o Join(Tail(fields))

\* Padded the way the service pads its columns.
Pad(s) == s \o <<" ">>

\* Address-mode replies to the query for address ip.
IPLine(asn, ip, range, date) ==
    Join(<<Pad(asn), Pad(ip), Pad(range), Txt_US, Txt_arin, date, Txt_name>>)

IPLineOK(ip) == IPLine(<<"7">>, ip, ip \o <<"/", "8">>, Txt_date)

\* ASN-mode replies to the query for the AS number with decimal text asn.
ASNLine(asn, date) == Join(<<Pad(asn), Txt_US, Txt_arin, date, Txt_name>>)

ASNLineOK(asn) == ASNLine(asn, Txt_date)

\* What may go wrong in a run, one kind a run: the kinds of line other than
\* a well-formed record the service may send, the service closing the
\* session ("eof"), the transport failing ("reset").
LineFaults == {"no match", "rate", "tokens", "asn", "range"}
Faults == LineFaults \cup {"eof", "reset"}

\* The line of kind f the service may send in answer to the query line q.
FaultLine(f, q) ==
    CASE f = "no match" -> Txt_Error \o Txt_no_match
      [] f = "rate" -> Txt_Error \o Txt_rate \o <<" ">>
      [] f = "tokens" ->
            IF q \in IPs
            THEN Join(<<q, q \o <<"/", "8">>, Txt_US, Txt_arin, <<>>, Txt_name>>)
            ELSE Join(<<q, Txt_US, Txt_arin, <<>>>>)
      [] f = "asn" ->
            IF q \in IPs THEN IPLine(Txt_NA, q, q \o <<"/", "8">>, <<>>)
            ELSE ASNLine(Txt_NA, <<>>)
      [] f = "range" ->
            IF q \in IPs THEN IPLine(<<"7">>, q, Txt_NA, <<>>)
            ELSE ASNLine(q, <<>>)

\* What the service may answer to the query line q in a run with fault f.
Replies(f, q) ==
    {IF q \in IPs THEN IPLineOK(q) ELSE ASNLineOK(q)}
        \cup (IF f \in LineFaults THEN {FaultLine(f, q)} ELSE {})

\* ------------------------------------------------- the reverse-name encoder
\* Addresses of the directory resolver are byte slices (net.IP).
IPv4len == 4
IPv6len == 16
hexDigit ==
    <<"0", "1", "2", "3", "4", "5", "6", "7", "8", "9", "a", "b", "c", "d",
      "e", "f">>

Suffix4 ==
    <<".", "o", "r", "i", "g", "i", "n", ".", "a", "s", "n", ".", "c", "y",
      "m", "r", "u", ".", "c", "o", "m">>
Suffix6 ==
    <<".", "o", "r", "i", "g", "i", "n", "6", ".", "a", "s", "n", ".", "c",
      "y", "m", "r", "u", ".", "c", "o", "m">>
SuffixASN ==
    <<".", "a", "s", "n", ".", "c", "y", "m", "r", "u", ".", "c", "o", "m">>

\* ip.To4(): the slice itself when it has 4 bytes, the last 4 bytes of a
\* 16-byte IPv4-mapped address, nil otherwise.
To4(ip) ==
    IF Len(ip) = IPv4len THEN ip
    ELSE IF /\ Len(ip) = IPv6len
            /\ \A i \in 1..10 : ip[i] = 0
            /\ ip[11] = 255 /\ ip[12] = 255
    THEN SubSeq(ip, 13, 16)
    ELSE <<>>

\* A text of getLookupName's and of the lookups' results: the name (or
\* nothing), the error, or the run-time panic that ended the call.
NameResult(name, e, panics) == [name |-> name, err |-> e, panic |-> panics]

ErrInvalidLength == [kind |-> "fmt.Errorf", msg |-> <<"Invalid length">>]

\* fmt.Sprintf("%d.%d.%d.%d.origin.asn.cymru.com", ip[15], ip[14], ip[13],
\* ip[12]): the indices are those of the 16-byte form.
SprintfV4(ip) ==
    Itoa(ip[16]) \o <<".">> \o Itoa(ip[15]) \o <<".">> \o Itoa(ip[14])
        \o <<".">> \o Itoa(ip[13]) \o Suffix4

\* The loops over i = 16, 14, .., 2 and j = 0..3 that fill b: the k-th
\* pair appended is a nibble of the word ip[i-2], ip[i-1] and the separator.
Nibble_WordsForward(ip, k) ==
    LET i == 2 * ((k - 1) \div 4) + 2
        j == (k - 1) % 4
        v == (ip[i - 1] * 256 + ip[i]) \div (16 ^ j)
    IN  hexDigit[(v % 16) + 1]

Nibble(ip, k) ==
    LET i == 16 - 2 * ((k - 1) \div 4)
        j == (k - 1) % 4
        v == (ip[i - 1] * 256 + ip[i]) \div (16 ^ j)
    IN  hexDigit[(v % 16) + 1]

NibblesAndSeps(ip) ==
    [n \in 1..64 |-> IF n % 2 = 1 THEN Nibble(ip, (n + 1) \div 2) ELSE "."]

\* c.getLookupName(ip)
getLookupName(ip) ==
    IF Len(To4(ip)) = IPv4len
    THEN IF Len(ip) < 16
         THEN NameResult(<<>>, ErrIndexOutOfRange, TRUE)
         ELSE NameResult(SprintfV4(ip), NoErr, FALSE)
    ELSE IF Len(ip) /= IPv6len
    THEN NameResult(<<>>, ErrInvalidLength, FALSE)
    ELSE NameResult(SubSeq(NibblesAndSeps(ip), 1, 63) \o Suffix6, NoErr,
                    FALSE)

\* ------------------------------------------------- the directory resolver
\* A lookup's result: the record (rec, empty for nil), the error, whether
\* the call panicked, and the TXT queries it issued, each with its answer.
DnsResult(rec, e, panics, queries) ==
    [rec |-> rec, err |-> e, panic |-> panics, queries |-> queries]

DnsError(what) == [kind |-> "fmt.Errorf", msg |-> <<what>>]
ErrLookupTXT == [kind |-> "net.LookupTXT", msg |-> <<>>]

\* The answer of net.LookupTXT: an error, or the TXT strings of the name.
Query(name, answer) == [name |-> name, answer |-> answer]

TrimValues(values) == [k \in DOMAIN values |-> TrimSpace(values[k])]

\* The body of dnsClient.LookupASN's loop from the trimmed values on.
LookupASNParse(asn, values) ==
    LET country == NewCountryFromCode(values[2])
        date    == ParseDate(values[4])
    IN  IF ~country.ok THEN [rec |-> <<>>, err |-> DnsError("CountryCode")]
        ELSE IF values[4] /= <<>> /\ ~date.ok
        THEN [rec |-> <<>>, err |-> DnsError("date")]
        ELSE [rec |-> <<[ASN       |-> asn,
                         IP        |-> <<>>,
                         Range     |-> <<>>,
                         Country   |-> country.val,
                         Registry  |-> values[3],
                         Allocated |-> IF values[4] /= <<>> THEN date.val
                                       ELSE <<>>,
                         Name      |-> NewName(values[5])]>>,
              err |-> NoErr]

ASNName(asn) == ASNString(asn) \o SuffixASN

\* c.LookupASN(asn), net.LookupTXT answering with answer.
DnsLookupASN(asn, answer) ==
    LET q == <<Query(ASNName(asn), answer)>>
    IN  IF answer.err THEN DnsResult(<<>>, ErrLookupTXT, FALSE, q)
        ELSE IF answer.txts = <<>>
        THEN DnsResult(<<>>, DnsError("No records found"), FALSE, q)
        ELSE IF Len(Split(answer.txts[1], Pipe)) /= 5
        THEN DnsResult(<<>>, DnsError("unrecognized response"), FALSE, q)
        ELSE LET r == LookupASNParse(
                          asn, TrimValues(Split(answer.txts[1], Pipe)))
             IN  DnsResult(r.rec, r.err, FALSE, q)

Chain_ToleratesFailure(ret, answer, q) ==
    LET r == DnsLookupASN(ret.ASN, answer)
    IN  IF r.err /= NoErr
        THEN DnsResult(<<ret>>, NoErr, FALSE, q \o r.queries)
        ELSE DnsResult(<<[ret EXCEPT !.Name = r.rec[1].Name]>>, NoErr, FALSE,
                       q \o r.queries)

\* The chained lookup that ends dnsClient.LookupIP: c.LookupASN(ret.ASN),
\* whose Name goes into ret.
Chain(ret, answer, q) ==
    LET r == DnsLookupASN(ret.ASN, answer)
    IN  IF r.err /= NoErr
        THEN DnsResult(<<>>, DnsError("Could not retrieve ASN"), FALSE,
                       q \o r.queries)
        ELSE DnsResult(<<[ret EXCEPT !.Name = r.rec[1].Name]>>, NoErr, FALSE,
                       q \o r.queries)

\* The body of dnsClient.LookupIP's loop from the trimmed values on; the
\* chained lookup is answered with answer.
LookupIPParse(ip, values, answer, q) ==
    LET asn     == Atoi(values[1])
        country == NewCountryFromCode(values[3])
        range   == ParseCIDR(values[2])
        date    == ParseDate(values[5])
    IN  IF ~asn.ok THEN DnsResult(<<>>, DnsError("ASN"), FALSE, q)
        ELSE IF ~country.ok
        THEN DnsResult(<<>>, DnsError("CountryCode"), FALSE, q)
        ELSE IF ~range.ok THEN DnsResult(<<>>, DnsError("Range"), FALSE, q)
        ELSE IF values[5] /= <<>> /\ ~date.ok
        THEN DnsResult(<<>>, DnsError("date"), FALSE, q)
        ELSE Chain([ASN       |-> asn.val,
                    IP        |-> ip,
                    Range     |-> range.net,
                    Country   |-> country.val,
                    Registry  |-> values[4],
                    Allocated |-> IF values[5] /= <<>> THEN date.val
                                  ELSE <<>>,
                    Name      |-> <<>>],
                   answer, q)

\* c.LookupIP(ip): origin answers the query for the address, answer the
\* chained one.  The error of getLookupName is overwritten by that of
\* net.LookupTXT, which is asked about the name getLookupName returned.
DnsLookupIP(ip, origin, answer) ==
    LET lookupName == getLookupName(ip)
        q          == <<Query(lookupName.name, origin)>>
    IN  IF lookupName.panic
        THEN DnsResult(<<>>, lookupName.err, TRUE, <<>>)
        ELSE IF origin.err THEN DnsResult(<<>>, ErrLookupTXT, FALSE, q)
        ELSE IF origin.txts = <<>>
        THEN DnsResult(<<>>, DnsError("No records found"), FALSE, q)
        ELSE IF Len(Split(origin.txts[1], Pipe)) /= 5
        THEN DnsResult(<<>>, DnsError("unrecognized response"), FALSE, q)
        ELSE LookupIPParse(ip, TrimValues(Split(origin.txts[1], Pipe)),
                           answer, q)

\* ret := make([]Response, len(inputs)): len(inputs) zero records.
MakeResponses(n) == [i \in 1..n |-> ZeroResponse]

BatchResult(resp, e, panics, queries) ==
    [resp |-> resp, err |-> e, panic |-> panics, queries |-> queries]

\* The loop of dnsClient.LookupIPs from the i-th address on; answers[i] are
\* the answers to the two queries of its lookup.
RECURSIVE DnsLookupIPsFrom(_, _, _, _, _)
DnsLookupIPsFrom(i, ips, answers, ret, q) ==
    IF i > Len(ips) THEN BatchResult(ret, NoErr, FALSE, q)
    ELSE LET r == DnsLookupIP(ips[i], answers[i].origin, answers[i].asn)
         IN  IF r.err /= NoErr
             THEN BatchResult(ret, r.err, r.panic, q \o r.queries)
             ELSE DnsLookupIPsFrom(i + 1, ips, answers,
                                   Append(ret, r.rec[1]), q \o r.queries)

\* c.LookupIPs(ips)
DnsLookupIPs(ips, answers) ==
    DnsLookupIPsFrom(1, ips, answers, MakeResponses(Len(ips)), <<>>)

\* The loop of dnsClient.LookupASNs from the i-th number on.
RECURSIVE DnsLookupASNsFrom(_, _, _, _, _)
DnsLookupASNsFrom(i, asns, answers, ret, q) ==
    IF i > Len(asns) THEN BatchResult(ret, NoErr, FALSE, q)
    ELSE LET r == DnsLookupASN(asns[i], answers[i])
         IN  IF r.err /= NoErr
             THEN BatchResult(ret, r.err, r.panic, q \o r.queries)
             ELSE DnsLookupASNsFrom(i + 1, asns, answers,
                                    Append(ret, r.rec[1]), q \o r.queries)

\* c.LookupASNs(asns)
DnsLookupASNs(asns, answers) ==
    DnsLookupASNsFrom(1, asns, answers, MakeResponses(Len(asns)), <<>>)

\* --------------------------------------------------- the DNS zones' answers
\* Addresses the directory resolver is asked about: 192.0.2.1 and
\* 10.0.0.255 as 4 bytes, 192.0.2.1 as the 16 bytes net.ParseIP gives, ::,
\* 2001:db8::1, and slices of no valid length.
IP4in16(ip) == <<0, 0, 0, 0, 0, 0, 0, 0, 0, 0, 255, 255>> \o ip
IPZero16 == [i \in 1..16 |-> 0]
IPv6Doc == <<32, 1, 13, 184, 0, 0, 0, 0, 0, 0, 0, 0, 0, 0, 0, 1>>
DnsIPs ==
    {<<192, 0, 2, 1>>, <<10, 0, 0, 255>>, IP4in16(<<192, 0, 2, 1>>),
     IPZero16, IPv6Doc, <<>>, <<1, 2, 3>>}
DnsBatchIPs == {IP4in16(<<192, 0, 2, 1>>), IPv6Doc, <<1, 2, 3>>}
DnsASNs == {7, 15}

TXT(txt) == [err |-> FALSE, txts |-> <<txt>>]
NoTXT == [err |-> FALSE, txts |-> <<>>]
TXTError == [err |-> TRUE, txts |-> <<>>]

OriginLine(asn, range, cc, date) ==
    Join(<<Pad(asn), Pad(range), Pad(cc), Pad(Txt_arin), date>>)
ZoneLine(asn, cc, date) ==
    Join(<<Pad(asn), Pad(cc), Pad(Txt_arin), Pad(date), Txt_name>>)

Txt_range == <<"a", "/", "8">>

\* What may be wrong with an answer, one kind a run.
DnsFaults ==
    {"lookup", "empty", "fields", "asn", "zero", "country", "range",
     "nodate", "baddate"}

\* The answers the origin zone may give in a run with fault f.
OriginAnswers(f, name) ==
    IF name = <<>> THEN {TXTError}
    ELSE {TXT(OriginLine(<<"7">>, Txt_range, Txt_US, Txt_date)),
          CASE f = "lookup" -> TXTError
            [] f = "empty" -> NoTXT
            [] f = "fields" -> TXT(Join(<<<<"7">>, Txt_range, Txt_US,
                                          Txt_arin>>))
            [] f = "asn" ->
                  TXT(OriginLine(Txt_NA, Txt_range, Txt_US, Txt_date))
            [] f = "zero" ->
                  TXT(OriginLine(<<"0">>, Txt_range, Txt_US, Txt_date))
            [] f = "country" ->
                  TXT(OriginLine(<<"7">>, Txt_range, Txt_NA, Txt_date))
            [] f = "range" ->
                  TXT(OriginLine(<<"7">>, Txt_NA, Txt_US, Txt_date))
            [] f = "nodate" ->
                  TXT(OriginLine(<<"7">>, Txt_range, Txt_US, <<>>))
            [] f = "baddate" ->
                  TXT(OriginLine(<<"7">>, Txt_range, Txt_US, Txt_NA))}

\* The answers the ASN zone may give about the number with text asn.
ASNAnswers(f, asn) ==
    {TXT(ZoneLine(asn, Txt_US, Txt_date)),
     CASE f = "lookup" -> TXTError
       [] f = "empty" -> NoTXT
       [] f = "fields" -> TXT(Join(<<asn, Txt_US, Txt_arin, Txt_date>>))
       [] f = "asn" -> TXT(ZoneLine(Txt_NA, Txt_US, Txt_date))
       [] f = "country" -> TXT(ZoneLine(asn, Txt_NA, Txt_date))
       [] f = "nodate" -> TXT(ZoneLine(asn, Txt_US, <<>>))
       [] f = "baddate" -> TXT(ZoneLine(asn, Txt_US, Txt_NA))
       [] OTHER -> TXT(ZoneLine(asn, Txt_US, Txt_date))}

\* The text of the number the chained query of an address lookup is about.
ChainedASN(origin) ==
    IF origin.txts = <<>> THEN <<"7">>
    ELSE TrimSpace(Split(origin.txts[1], Pipe)[1])

\* ------------------------------------------------------------------- state
Callers == {"c1", "c2"}

VARIABLES
    fault,      \* what may go wrong in this run
    ncmu,       \* c.ncmu: the caller holding the lock, or Nil
    wbuf,       \* c.w: lines written to the bufio.Writer and not yet flushed
    werr,       \* c.w: the writer's sticky error
    wire,       \* lines that reached the connection, not yet answered
    endSent,    \* the line "end" has reached the connection
    inbox,      \* lines the service sent, waiting in the socket
    scbuf,      \* c.sc: lines read from the socket and not yet returned
    scState,    \* c.sc: "ok", or how Scan came to return false ("eof", "err")
    net,        \* the connection: "up", "eof" (service closed), "reset"
    connClosed, \* c.conn.Close() has been called
    ncalls,     \* calls made so far
    pc,         \* each caller's position
    op,         \* each caller's operation
    args,       \* its input slice
    wi,         \* the write loop's position in args
    resp,       \* the named result resp
    rcap,       \* cap(resp)
    err,        \* the named result err
    got,        \* the lines its Scan calls returned, each with the query it answers
    ret,        \* what the operation returned to the caller
    made,       \* NewWhoisClient: its position, what it sent and read, its err
    dfault,     \* what may be wrong with the DNS answers of this run
    dop,        \* the directory resolver's last operation
    dargs,      \* its inputs
    dans,       \* the TXT queries it issued, each with its answer
    dret        \* what it returned

vars == <<fault, ncmu, wbuf, werr, wire, endSent, inbox, scbuf, scState, net, connClosed,
          ncalls, pc, op, args, wi, resp, rcap, err, got, ret,
          made, dfault, dop, dargs, dans, dret>>

dns == <<dfault, dop, dargs, dans, dret>>
whois == <<fault, made, ncmu, wbuf, werr, wire, endSent, inbox, scbuf,
           scState, net, connClosed, ncalls, pc, op, args, wi, resp, rcap,
           err, got, ret>>

conn == <<fault, wbuf, werr, wire, endSent, inbox, scbuf, scState, net,
          connClosed>>
locals == <<op, args, wi, resp, rcap, err, got>>

\* What a caller holds after its call: the batch's return values (resp,
\* err) and how the batch was left (exit); for a single-item operation the
\* record it returns (rec, empty for nil), its error (reterr), or the panic.
NoRet ==
    [kind |-> "none", resp |-> <<>>, err |-> NoErr, exit |-> "none",
     rec |-> <<>>, reterr |-> NoErr, panic |-> FALSE]

\* NewWhoisClient returned a connected client: the handshake was sent and
\* the greeting read.
Connected ==
    [at |-> "ready", sent |-> <<Txt_begin, Txt_verbose>>,
     read |-> <<Txt_hello>>, err |-> NoErr]

\* What the directory resolver holds when it has not been called.
NoDnsRet ==
    [kind |-> "none", resp |-> <<>>, rec |-> <<>>, name |-> <<>>,
     err |-> NoErr, panic |-> FALSE]

DnsIdle ==
    /\ dop = "none"
    /\ dargs = <<>>
    /\ dans = <<>>
    /\ dret = NoDnsRet

\* The client's own state once it is connected and before its first call.
Fresh ==
    /\ ncmu = Nil
    /\ wbuf = <<>>
    /\ werr = FALSE
    /\ wire = <<>>
    /\ endSent = FALSE
    /\ inbox = <<>>
    /\ scbuf = <<>>
    /\ scState = "ok"
    /\ net = "up"
    /\ connClosed = FALSE
    /\ ncalls = 0
    /\ pc = [p \in Callers |-> "idle"]
    /\ op = [p \in Callers |-> "none"]
    /\ args = [p \in Callers |-> <<>>]
    /\ wi = [p \in Callers |-> 1]
    /\ resp = [p \in Callers |-> <<>>]
    /\ rcap = [p \in Callers |-> 0]
    /\ err = [p \in Callers |-> NoErr]
    /\ got = [p \in Callers |-> <<>>]
    /\ ret = [p \in Callers |-> NoRet]

\* The state after NewWhoisClient returned a connected client.
Init ==
    /\ fault \in Faults
    /\ Fresh
    /\ made = Connected
    /\ dfault = "none"
    /\ DnsIdle

BatchOps == {"LookupIPs", "LookupASNs"}
SingleOps == {"LookupIP", "LookupASN"}
IPMode(o) == o \in {"LookupIPs", "LookupIP"}

\* Slices of at most n elements of S.
Slices(S, n) == UNION {[1..k -> S] : k \in 0..n}

\* ------------------------------------------------------------------- calls
\* A caller may start an operation while the client is in use (not closed).
CanCall(p) ==
    /\ made.at = "ready"
    /\ pc[p] \in {"idle", "done"}
    /\ ~connClosed
    /\ ncalls < MaxCalls

\* resp = make([]Response, 0, len(inputs)), then on to c.ncmu.Lock().
Enter(p, o, inputs) ==
    /\ ncalls' = ncalls + 1
    /\ pc' = [pc EXCEPT ![p] = "lock"]
    /\ op' = [op EXCEPT ![p] = o]
    /\ args' = [args EXCEPT ![p] = inputs]
    /\ wi' = [wi EXCEPT ![p] = 1]
    /\ resp' = [resp EXCEPT ![p] = <<>>]
    /\ rcap' = [rcap EXCEPT ![p] = Len(inputs)]
    /\ err' = [err EXCEPT ![p] = NoErr]
    /\ got' = [got EXCEPT ![p] = <<>>]
    /\ ret' = [ret EXCEPT ![p] = NoRet]
    /\ UNCHANGED <<ncmu, conn, made, dns>>

LookupIPs(p, n) ==
    /\ CanCall(p)
    /\ \E ips \in Slices(IPs, n) : Enter(p, "LookupIPs", ips)

LookupASNs(p, n) ==
    /\ CanCall(p)
    /\ \E asns \in Slices(ASNs, n) : Enter(p, "LookupASNs", asns)

\* c.LookupIPs([]net.IP{ip})
LookupIP(p) ==
    /\ CanCall(p)
    /\ \E ip \in IPs : Enter(p, "LookupIP", <<ip>>)

\* c.LookupASNs([]ASN{asn})
LookupASN(p) ==
    /\ CanCall(p)
    /\ \E asn \in ASNs : Enter(p, "LookupASN", <<asn>>)

\* ------------------------------------------------------------ lock, return
\* Every line on its way carries, beside its text, whose it is: cur says
\* that it is a query of the batch now holding the lock, or the answer to
\* one, and idx which query of that batch.  When a batch takes the lock,
\* the lines of the batches before it become earlier ones.
Earlier(lines) ==
    [i \in DOMAIN lines |-> [text |-> lines[i].text, cur |-> FALSE, idx |-> 0]]

Lock_NoWait(p) ==
    /\ pc[p] = "lock"
    /\ ncmu' = p
    /\ pc' = [pc EXCEPT ![p] = IF args[p] = <<>> THEN "read" ELSE "write"]
    /\ wbuf' = Earlier(wbuf)
    /\ wire' = Earlier(wire)
    /\ inbox' = Earlier(inbox)
    /\ scbuf' = Earlier(scbuf)
    /\ UNCHANGED <<fault, made, dns, werr, endSent, scState, net, connClosed, ncalls,
                   locals, ret>>

\* c.ncmu.Lock(): blocks until the mutex is free.  A batch with no input
\* runs no pass of the write loop and goes on to the read loop.
Lock(p) ==
    /\ pc[p] = "lock"
    /\ ncmu = Nil
    /\ ncmu' = p
    /\ pc' = [pc EXCEPT ![p] = IF args[p] = <<>> THEN "read" ELSE "write"]
    /\ wbuf' = Earlier(wbuf)
    /\ wire' = Earlier(wire)
    /\ inbox' = Earlier(inbox)
    /\ scbuf' = Earlier(scbuf)
    /\ UNCHANGED <<fault, made, dns, werr, endSent, scState, net, connClosed, ncalls,
                   locals, ret>>

\* What the called operation hands to its caller once the batch returned
\* (r, e): the batch operations return them as they are; LookupIP returns
\* nil, e when r is empty and &r[0], e otherwise; LookupASN takes &r[0]
\* in every case, which panics on an empty r.
Deliver(o, r, e, how) ==
    CASE o \in BatchOps ->
            [kind |-> "batch", resp |-> r, err |-> e, exit |-> how,
             rec |-> <<>>, reterr |-> e, panic |-> FALSE]
      [] o = "LookupIP" ->
            [kind |-> "single", resp |-> r, err |-> e, exit |-> how,
             rec |-> IF Len(r) = 0 THEN <<>> ELSE <<r[1]>>,
             reterr |-> e, panic |-> FALSE]
      [] o = "LookupASN" ->
            IF Len(r) = 0
            THEN [kind |-> "single", resp |-> r, err |-> e, exit |-> how,
                  rec |-> <<>>, reterr |-> ErrIndexOutOfRange, panic |-> TRUE]
            ELSE [kind |-> "single", resp |-> r, err |-> e, exit |-> how,
                  rec |-> <<r[1]>>, reterr |-> e, panic |-> FALSE]

\* return r, e from a batch: the deferred c.ncmu.Unlock() runs, then the
\* caller (or the single-item wrapper) gets the result.
Return(p, r, e, how) ==
    /\ ncmu' = Nil
    /\ pc' = [pc EXCEPT ![p] = "done"]
    /\ ret' = [ret EXCEPT ![p] = Deliver(op[p], r, e, how)]

\* -------------------------------------------------------------- write loop
QueryText(o, x) == IF IPMode(o) THEN IPString(x) ELSE ASNString(x)

\* The writer's buffer after c.w.Write of one line and its ncEOL (the
\* writer accepts nothing once it has an error).
Buffered(buf, line) == IF werr THEN buf ELSE Append(buf, line)

\* The connection accepts a write.
Writable == ~connClosed /\ net /= "reset"

HasEnd(lines) == \E i \in DOMAIN lines : lines[i].text = Txt_end

\* One pass of the write loop whose Flush succeeds.
WriteQuery(p) ==
    LET line == [text |-> QueryText(op[p], args[p][wi[p]]),
                 cur |-> TRUE, idx |-> wi[p]]
    IN  /\ pc[p] = "write"
        /\ ~werr /\ Writable
        /\ wire' = wire \o Buffered(wbuf, line)
        /\ endSent' = (endSent \/ HasEnd(wbuf))
        /\ wbuf' = <<>>
        /\ err' = [err EXCEPT ![p] = NoErr]
        /\ wi' = [wi EXCEPT ![p] = wi[p] + 1]
        /\ pc' = [pc EXCEPT ![p] = IF wi[p] = Len(args[p]) THEN "read" ELSE "write"]
        /\ UNCHANGED <<fault, made, dns, ncmu, werr, inbox, scbuf, scState, net,
                       connClosed, ncalls, op, args, resp, rcap, got,
                       ret>>

\* One pass of the write loop whose Flush fails: return resp, err.
WriteQueryFails(p) ==
    LET line == [text |-> QueryText(op[p], args[p][wi[p]]),
                 cur |-> TRUE, idx |-> wi[p]]
    IN  /\ pc[p] = "write"
        /\ werr \/ ~Writable
        /\ wbuf' = Buffered(wbuf, line)
        /\ werr' = TRUE
        /\ err' = [err EXCEPT ![p] = ErrFlush]
        /\ Return(p, resp[p], ErrFlush, "flush")
        /\ UNCHANGED <<fault, made, dns, wire, endSent, inbox, scbuf, scState, net,
                       connClosed, ncalls, op, args, wi, resp, rcap,
                       got>>

\* --------------------------------------------------------------- read loop
Body(o, raw, r, cap) ==
    IF IPMode(o) THEN LookupIPsBody(raw, r, cap) ELSE LookupASNsBody(raw, r, cap)

\* The connection delivers what the service sent.
Readable == ~connClosed /\ net /= "reset"

\* c.sc.Scan() returns true with the next line, from the scanner's buffer
\* or, that being empty, after a read of what waits in the socket; the loop
\* body runs on the line.  The loop is left by a return of the body, or by
\* finished.
ScanLine(p) ==
    /\ pc[p] = "read"
    /\ scState = "ok"
    /\ scbuf /= <<>> \/ (Readable /\ inbox /= <<>>)
    /\ \E avail \in {IF scbuf /= <<>> THEN scbuf ELSE inbox} :
       \E b \in {Body(op[p], Head(avail).text, resp[p], rcap[p])} :
          /\ scbuf' = Tail(avail)
          /\ inbox' = IF scbuf /= <<>> THEN inbox ELSE <<>>
          /\ got' = [got EXCEPT ![p] = Append(got[p], Head(avail))]
          /\ resp' = [resp EXCEPT ![p] = b.resp]
          /\ rcap' = [rcap EXCEPT ![p] = b.cap]
          /\ err' = [err EXCEPT ![p] = b.err]
          /\ IF b.next = "scan"
             THEN UNCHANGED <<ncmu, pc, ret>>
             ELSE Return(p, b.resp, b.err,
                         IF b.next = "return" THEN "line" ELSE "finished")
    /\ UNCHANGED <<fault, made, dns, wbuf, werr, wire, endSent, scState, net,
                   connClosed, ncalls, op, args, wi>>

\* Why a Scan that has no line to return returns false: the service closed
\* its end and everything it sent was read ("eof", Err() is nil), or the
\* read failed ("err").  "ok": Scan does not return false.
ScanEnds ==
    IF scState /= "ok" THEN scState
    ELSE IF scbuf /= <<>> THEN "ok"
    ELSE IF ~Readable THEN "err"
    ELSE IF net = "eof" /\ inbox = <<>> THEN "eof"
    ELSE "ok"

ScanFalse_ReportsErr(p) ==
    /\ pc[p] = "read"
    /\ ScanEnds /= "ok"
    /\ scState' = ScanEnds
    /\ Return(p, resp[p], ErrorsNew(<<"E", "O", "F">>), "scanfalse")
    /\ UNCHANGED <<fault, made, dns, wbuf, werr, wire, endSent, inbox, scbuf, net,
                   connClosed, ncalls, locals>>

\* c.sc.Scan() returns false: the loop ends and resp, err are returned.
\* c.sc.Err() is not looked at.
ScanFalse(p) ==
    /\ pc[p] = "read"
    /\ ScanEnds /= "ok"
    /\ scState' = ScanEnds
    /\ Return(p, resp[p], err[p], "scanfalse")
    /\ UNCHANGED <<fault, made, dns, wbuf, werr, wire, endSent, inbox, scbuf, net,
                   connClosed, ncalls, locals>>

\* ------------------------------------------------------------------- Close
\* c.w.Write([]byte("end")); c.w.Write(ncEOL): into the writer's buffer,
\* without the lock and without a Flush.
CloseWrite(p) ==
    /\ CanCall(p)
    /\ \A q \in Callers : op[q] /= "Close"
    /\ ncalls' = ncalls + 1
    /\ op' = [op EXCEPT ![p] = "Close"]
    /\ args' = [args EXCEPT ![p] = <<>>]
    /\ wbuf' = Buffered(wbuf, [text |-> Txt_end, cur |-> FALSE, idx |-> 0])
    /\ pc' = [pc EXCEPT ![p] = "close"]
    /\ ret' = [ret EXCEPT ![p] = NoRet]
    /\ UNCHANGED <<fault, made, dns, ncmu, werr, wire, endSent, inbox, scbuf, scState,
                   net, connClosed, wi, resp, rcap, err, got>>

\* return c.conn.Close()
CloseConn(p) ==
    /\ pc[p] = "close"
    /\ connClosed' = TRUE
    /\ pc' = [pc EXCEPT ![p] = "done"]
    /\ ret' = [ret EXCEPT ![p] =
                 [NoRet EXCEPT !.kind = "closed"]]
    /\ UNCHANGED <<fault, made, dns, ncmu, wbuf, werr, wire, endSent, inbox, scbuf,
                   scState, net, ncalls, locals>>

\* ------------------------------------------------------------- the service
\* The service answers the oldest unanswered query with one line; on "end"
\* it closes the session.
ServiceReply ==
    /\ net = "up" /\ ~connClosed
    /\ wire /= <<>>
    /\ Head(wire).text \notin {Txt_begin, Txt_verbose}
    /\ LET q == Head(wire)
       IN  IF q.text = Txt_end
           THEN /\ net' = "eof"
                /\ wire' = <<>>
                /\ UNCHANGED inbox
           ELSE /\ \E l \in Replies(fault, q.text) :
                      inbox' = Append(inbox, [q EXCEPT !.text = l])
                /\ wire' = Tail(wire)
                /\ UNCHANGED net
    /\ UNCHANGED <<fault, made, dns, ncmu, wbuf, werr, endSent, scbuf, scState,
                   connClosed, ncalls, pc, locals, ret>>

\* The service closes the session of its own accord.
ServiceClose ==
    /\ fault = "eof"
    /\ net = "up" /\ ~connClosed
    /\ net' = "eof"
    /\ UNCHANGED <<fault, made, dns, ncmu, wbuf, werr, wire, endSent, inbox, scbuf,
                   scState, connClosed, ncalls, pc, locals, ret>>

\* The transport fails.
ConnReset ==
    /\ fault = "reset"
    /\ net \in {"up", "eof"} /\ ~connClosed
    /\ net' = "reset"
    /\ UNCHANGED <<fault, made, dns, ncmu, wbuf, werr, wire, endSent, inbox, scbuf,
                   scState, connClosed, ncalls, pc, locals, ret>>

\* ---------------------------------------------------------- NewWhoisClient
Handshake ==
    <<[text |-> Txt_begin, cur |-> FALSE, idx |-> 0],
      [text |-> Txt_verbose, cur |-> FALSE, idx |-> 0]>>

\* net.DialTimeout connects; the writer and the scanner are made.
Dial ==
    /\ made.at = "dial"
    /\ fault /= "dial"
    /\ made' = [made EXCEPT !.at = "handshake"]
    /\ UNCHANGED <<fault, dns, ncmu, wbuf, werr, wire, endSent, inbox, scbuf,
                   scState, net, connClosed, ncalls, pc, locals, ret>>

\* net.DialTimeout fails: return (with err).
DialFails ==
    /\ made.at = "dial"
    /\ fault = "dial"
    /\ made' = [made EXCEPT !.at = "failed", !.err = ErrDial]
    /\ UNCHANGED <<fault, dns, ncmu, wbuf, werr, wire, endSent, inbox, scbuf,
                   scState, net, connClosed, ncalls, pc, locals, ret>>

\* The four writes of "begin" and "verbose", and a Flush that succeeds.
WriteHandshake ==
    /\ made.at = "handshake"
    /\ Writable
    /\ wire' = wire \o Handshake
    /\ made' = [made EXCEPT !.at = "greeting",
                            !.sent = <<Txt_begin, Txt_verbose>>]
    /\ UNCHANGED <<fault, dns, ncmu, wbuf, werr, endSent, inbox, scbuf,
                   scState, net, connClosed, ncalls, pc, locals, ret>>

\* The Flush fails: return (with err).
WriteHandshakeFails ==
    /\ made.at = "handshake"
    /\ ~Writable
    /\ wbuf' = Handshake
    /\ werr' = TRUE
    /\ made' = [made EXCEPT !.at = "failed", !.err = ErrFlush]
    /\ UNCHANGED <<fault, dns, ncmu, wire, endSent, inbox, scbuf, scState,
                   net, connClosed, ncalls, pc, locals, ret>>

\* client.sc.Scan() returns a line, which is dropped; client.sc.Err() is
\* nil.
ScanGreeting ==
    /\ made.at = "greeting"
    /\ scState = "ok"
    /\ scbuf /= <<>> \/ (Readable /\ inbox /= <<>>)
    /\ \E avail \in {IF scbuf /= <<>> THEN scbuf ELSE inbox} :
          /\ scbuf' = Tail(avail)
          /\ inbox' = IF scbuf /= <<>> THEN inbox ELSE <<>>
          /\ made' = [made EXCEPT !.at = "ready",
                                  !.read = <<Head(avail).text>>]
    /\ UNCHANGED <<fault, dns, ncmu, wbuf, werr, wire, endSent, scState, net,
                   connClosed, ncalls, pc, locals, ret>>

\* client.sc.Scan() returns false, its result is not looked at; err is
\* client.sc.Err(), nil when the service closed the session.
ScanGreetingFalse ==
    /\ made.at = "greeting"
    /\ ScanEnds /= "ok"
    /\ scState' = ScanEnds
    /\ made' = IF ScanEnds = "err"
               THEN [made EXCEPT !.at = "failed", !.err = ErrScan]
               ELSE [made EXCEPT !.at = "ready"]
    /\ UNCHANGED <<fault, dns, ncmu, wbuf, werr, wire, endSent, inbox, scbuf,
                   net, connClosed, ncalls, pc, locals, ret>>

\* The service takes a line of the handshake: it greets on "begin".
ServiceHello ==
    /\ net = "up" /\ ~connClosed
    /\ wire /= <<>>
    /\ Head(wire).text \in {Txt_begin, Txt_verbose}
    /\ wire' = Tail(wire)
    /\ inbox' = IF Head(wire).text = Txt_begin
                THEN Append(inbox, [text |-> Txt_hello, cur |-> FALSE,
                                    idx |-> 0])
                ELSE inbox
    /\ UNCHANGED <<fault, made, dns, ncmu, wbuf, werr, endSent, scbuf,
                   scState, net, connClosed, ncalls, pc, locals, ret>>

\* ------------------------------------------------- the directory resolver
\* The resolver keeps nothing from one call to the next: every call starts
\* from the state NewDnsClient left.
DnsCallable == dop = "none"

\* An operation of the directory resolver was called with inputs and
\* returned: what the caller holds.
DnsReturn(o, inputs, queries, result) ==
    /\ dop' = o
    /\ dargs' = inputs
    /\ dans' = queries
    /\ dret' = result
    /\ UNCHANGED <<dfault, whois>>

dnsClient_getLookupName ==
    /\ DnsCallable
    /\ \E ip \in DnsIPs :
        \E r \in {getLookupName(ip)} :
            DnsReturn("getLookupName", <<ip>>, <<>>,
                      [NoDnsRet EXCEPT !.kind = "name", !.name = r.name,
                                       !.err = r.err, !.panic = r.panic])

dnsClient_LookupIP ==
    /\ DnsCallable
    /\ \E ip \in DnsIPs :
        \E origin \in OriginAnswers(dfault, getLookupName(ip).name) :
            \E answer \in ASNAnswers(dfault, ChainedASN(origin)) :
                \E r \in {DnsLookupIP(ip, origin, answer)} :
                    DnsReturn("LookupIP", <<ip>>, r.queries,
                              [NoDnsRet EXCEPT !.kind = "single",
                                               !.rec = r.rec, !.err = r.err,
                                               !.panic = r.panic])

dnsClient_LookupASN ==
    /\ DnsCallable
    /\ \E asn \in DnsASNs :
        \E answer \in ASNAnswers(dfault, ASNString(asn)) :
            \E r \in {DnsLookupASN(asn, answer)} :
                DnsReturn("LookupASN", <<asn>>, r.queries,
                          [NoDnsRet EXCEPT !.kind = "single", !.rec = r.rec,
                                           !.err = r.err,
                                           !.panic = r.panic])

\* The answers the two queries of the lookup of ip may get.
AnswerPairs(f, ip) ==
    UNION {{[origin |-> o, asn |-> a] : a \in ASNAnswers(f, ChainedASN(o))} :
           o \in OriginAnswers(f, getLookupName(ip).name)}

dnsClient_LookupIPs(n) ==
    /\ DnsCallable
    /\ \E ips \in Slices(DnsBatchIPs, n) :
        \E answers \in [1..Len(ips) ->
                            UNION {AnswerPairs(dfault, ip) : ip \in DnsBatchIPs}] :
            /\ \A i \in 1..Len(ips) :
                  answers[i] \in AnswerPairs(dfault, ips[i])
            /\ \E r \in {DnsLookupIPs(ips, answers)} :
                  DnsReturn("LookupIPs", ips, r.queries,
                            [NoDnsRet EXCEPT !.kind = "batch",
                                             !.resp = r.resp, !.err = r.err,
                                             !.panic = r.panic])

dnsClient_LookupASNs(n) ==
    /\ DnsCallable
    /\ \E asns \in Slices(DnsASNs, n) :
        \E answers \in [1..Len(asns) ->
                            UNION {ASNAnswers(dfault, ASNString(a)) :
                                   a \in DnsASNs}] :
            /\ \A i \in 1..Len(asns) :
                  answers[i] \in ASNAnswers(dfault, ASNString(asns[i]))
            /\ \E r \in {DnsLookupASNs(asns, answers)} :
                  DnsReturn("LookupASNs", asns, r.queries,
                            [NoDnsRet EXCEPT !.kind = "batch",
                                             !.resp = r.resp, !.err = r.err,
                                             !.panic = r.panic])

\* ---------------------------------------------------------- specifications
\* One caller using the client, the service and the transport free to fail.
Next ==
    \/ \E p \in {"c1"} : LookupIPs(p, MaxN)
    \/ \E p \in {"c1"} : LookupASNs(p, MaxN)
    \/ \E p \in {"c1"} : LookupIP(p)
    \/ \E p \in {"c1"} : LookupASN(p)
    \/ \E p \in {"c1"} : Lock(p)
    \/ \E p \in {"c1"} : WriteQuery(p)
    \/ \E p \in {"c1"} : WriteQueryFails(p)
    \/ \E p \in {"c1"} : ScanLine(p)
    \/ \E p \in {"c1"} : ScanFalse(p)
    \/ \E p \in {"c1"} : CloseWrite(p)
    \/ \E p \in {"c1"} : CloseConn(p)
    \/ ServiceReply
    \/ ServiceClose
    \/ ConnReset

Spec == Init /\ [][Next]_vars

\* The same from before NewWhoisClient, the dial free to fail as well.
NextNew ==
    \/ Dial
    \/ DialFails
    \/ WriteHandshake
    \/ WriteHandshakeFails
    \/ ScanGreeting
    \/ ScanGreetingFalse
    \/ ServiceHello
    \/ Next

InitNew ==
    /\ fault \in Faults \cup {"dial"}
    /\ Fresh
    /\ made = [at |-> "dial", sent |-> <<>>, read |-> <<>>, err |-> NoErr]
    /\ dfault = "none"
    /\ DnsIdle

SpecNew == InitNew /\ [][NextNew]_vars

\* A call of the directory resolver; each zone answers a query with a
\* well-formed record or in the way of the run's fault.
NextDns ==
    \/ dnsClient_getLookupName
    \/ dnsClient_LookupIP
    \/ dnsClient_LookupASN
    \/ dnsClient_LookupIPs(MaxDnsN)
    \/ dnsClient_LookupASNs(MaxDnsN)

InitDns ==
    /\ fault = "eof"
    /\ Fresh
    /\ made = Connected
    /\ dfault \in DnsFaults
    /\ DnsIdle

SpecDns == InitDns /\ [][NextDns]_vars

\* Several callers sharing the client, over a transport that does not fail
\* of its own accord and a service whose lines are records or "no match".
NextConcurrent ==
    \/ \E p \in Callers : LookupIPs(p, MaxNShared)
    \/ \E p \in Callers : LookupASNs(p, MaxNShared)
    \/ \E p \in Callers : LookupIP(p)
    \/ \E p \in Callers : LookupASN(p)
    \/ \E p \in Callers : Lock(p)
    \/ \E p \in Callers : WriteQuery(p)
    \/ \E p \in Callers : WriteQueryFails(p)
    \/ \E p \in Callers : ScanLine(p)
    \/ \E p \in Callers : ScanFalse(p)
    \/ \E p \in Callers : CloseWrite(p)
    \/ \E p \in Callers : CloseConn(p)
    \/ ServiceReply

InitConcurrent == Init /\ fault = "no match"

SpecConcurrent == InitConcurrent /\ [][NextConcurrent]_vars

\* ------------------------------------------------------------------ claims
Lookups == BatchOps \cup SingleOps

\* The caller's lookup has returned (or panicked).
Returned(p) == pc[p] = "done" /\ op[p] \in Lookups

InBatch(p) == pc[p] \in {"write", "read"}

\* The record a line of the active mode parses to.
ParsedRecord(o, raw) == Body(o, raw, <<>>, 1).resp[1]

LastGot(p) == got[p][Len(got[p])].text

IsErrorLine(raw) == Len(raw) >= 7 /\ SubSeq(raw, 1, 7) = Txt_Error

TokenCount(raw) == Cardinality({i \in DOMAIN raw : raw[i] = "|"}) + 1

Schema(o) == IF IPMode(o) THEN 7 ELSE 5

\* C1: batches of concurrent callers are strictly serialized: no two callers
\* are in the write or read phase of a batch at once, and on the connection
\* the queries of the batch holding the lock follow one another in their
\* order, no query of another batch among or behind them.
C1_BatchesSerialized ==
    /\ \A p, q \in Callers : p /= q => ~(InBatch(p) /\ InBatch(q))
    /\ \A i, j \in DOMAIN wire :
          (i < j /\ wire[i].cur /\ wire[j].text /= Txt_end)
             => (wire[j].cur /\ wire[j].idx > wire[i].idx)

\* C1 witness: one caller's batch has written its query and is reading while
\* another caller's batch waits for the lock.
C1_Witness ==
    \E p, q \in Callers :
        /\ pc[p] = "read" /\ args[p] /= <<>>
        /\ pc[q] = "lock" /\ args[q] /= <<>>
        /\ ncmu = p

\* C2: every access to the shared writer, reader and socket is made holding
\* the lock: every caller inside a batch or inside Close holds it, and Close
\* is never between its write and its closing of the socket while another
\* caller's batch is in its write or read phase.
C2_AllAccessUnderLock ==
    /\ \A p \in Callers : (InBatch(p) \/ pc[p] = "close") => ncmu = p
    /\ \A p, q \in Callers : (pc[p] = "close" /\ p /= q) => ~InBatch(q)

\* C3: a batch never consumes a reply to a query of an earlier batch: every
\* line it scanned, and so every record it returns, answers one of its own
\* queries.
C3_OwnRepliesOnly ==
    \A p \in Callers :
        op[p] \in Lookups =>
            \A i \in DOMAIN got[p] : got[p][i].cur

\* C4: a batch of N inputs never reads more than N response lines and never
\* holds or returns more than N records, also when N = 0.
C4_AtMostNLines ==
    \A p \in Callers :
        op[p] \in Lookups =>
            /\ Len(got[p]) <= Len(args[p])
            /\ Len(resp[p]) <= Len(args[p])
            /\ Len(ret[p].resp) <= Len(args[p])

C6_ErrorLineMessage ==
    \A p \in Callers :
        (/\ op[p] \in Lookups
         /\ got[p] /= <<>>
         /\ IsErrorLine(LastGot(p)))
        => /\ pc[p] = "done"
           /\ ret[p].err =
                 ErrorsNew(TrimSpace(SubSeq(LastGot(p), 8, Len(LastGot(p)))))
           /\ Len(ret[p].resp) = Len(got[p]) - 1
           /\ \A i \in 1..(Len(got[p]) - 1) :
                 ret[p].resp[i] = ParsedRecord(op[p], got[p][i].text)

\* C7: a line whose field count differs from the schema of the active mode
\* (7 for address mode, 5 for ASN mode) ends the batch with
\* ErrUnexpectedTokens; the line gives no record and the records parsed
\* before it are returned.
C7_WrongFieldCount ==
    \A p \in Callers :
        (/\ op[p] \in Lookups
         /\ got[p] /= <<>>
         /\ ~IsErrorLine(LastGot(p))
         /\ TokenCount(LastGot(p)) /= Schema(op[p]))
        => /\ pc[p] = "done"
           /\ ret[p].err = ErrUnexpectedTokens
           /\ Len(ret[p].resp) = Len(got[p]) - 1
           /\ \A i \in 1..(Len(got[p]) - 1) :
                 ret[p].resp[i] = ParsedRecord(op[p], got[p][i].text)

\* C7 witness: an ASN-mode batch returned one record and ErrUnexpectedTokens
\* after a second line of 4 fields.
C7_Witness ==
    \E p \in Callers :
        /\ Returned(p)
        /\ op[p] = "LookupASNs"
        /\ Len(got[p]) = 2
        /\ got[p][2].cur
        /\ TokenCount(LastGot(p)) = 4
        /\ ret[p].err = ErrUnexpectedTokens
        /\ Len(ret[p].resp) = 1

\* C8: LookupIP and LookupASN on a batch result with zero records return no
\* record together with the batch's error, and never fault.
C8_SingleItemEmptyResult ==
    \A p \in Callers :
        (Returned(p) /\ op[p] \in SingleOps /\ ret[p].resp = <<>>)
        => /\ ~ret[p].panic
           /\ ret[p].rec = <<>>
           /\ ret[p].reterr = ret[p].err

\* C9: LookupIPs returns as many records as it was given addresses, the
\* i-th parsed from the service's reply to the i-th address.
C9_SameSizeSameOrder ==
    \A p \in Callers :
        (Returned(p) /\ op[p] = "LookupIPs")
        => /\ Len(ret[p].resp) = Len(args[p])
           /\ \A i \in DOMAIN ret[p].resp :
                 /\ got[p][i].cur
                 /\ got[p][i].idx = i
                 /\ ret[p].resp[i] = ParsedRecord(op[p], got[p][i].text)

\* C10: the line "end" has reached the connection before the socket is
\* closed.
C10_EndBeforeClose == connClosed => endSent

\* C11: NewWhoisClient fails with an error when the dial or the flush of
\* the handshake fails; when it succeeds, "begin" then "verbose" and nothing
\* else were sent and exactly one line, the greeting, was read and dropped;
\* no caller starts a batch, so no query is written, before it succeeded.
C11_Construction ==
    /\ made.err.kind \in {ErrDial.kind, ErrFlush.kind} => made.at = "failed"
    /\ made.at = "failed" <=> made.err /= NoErr
    /\ made.at = "ready" =>
          /\ made.sent = <<Txt_begin, Txt_verbose>>
          /\ Len(made.read) = 1
    /\ \A p \in Callers : pc[p] /= "idle" => made.at = "ready"

\* C12: a transport failure in the middle of a batch, on a flush or on a
\* read, makes the batch return a non-nil error together with the records
\* parsed from the lines read so far; a failed read never ends the batch
\* with a nil error.
C12_IOFailureSurfaced ==
    \A p \in Callers :
        (/\ Returned(p)
         /\ \/ ret[p].exit = "flush"
            \/ ret[p].exit = "scanfalse" /\ scState = "err")
        => /\ ret[p].err /= NoErr
           /\ Len(ret[p].resp) <= Len(got[p])
           /\ \A i \in DOMAIN ret[p].resp :
                 ret[p].resp[i] = ParsedRecord(op[p], got[p][i].text)

\* The lookup's only input.
DnsInput == dargs[1]

\* b4.b3.b2.b1 in decimal for the four bytes b1, b2, b3, b4.
ReverseOctets(b) ==
    Itoa(b[4]) \o <<".">> \o Itoa(b[3]) \o <<".">> \o Itoa(b[2]) \o <<".">>
        \o Itoa(b[1])

\* C13: for every address given as the 4 bytes b1, b2, b3, b4 the encoder
\* returns, without fault, the name b4.b3.b2.b1.origin.asn.cymru.com with
\* each byte in decimal.
C13_FourByteName ==
    (dop = "getLookupName" /\ Len(DnsInput) = 4)
        => /\ ~dret.panic
           /\ dret.err = NoErr
           /\ dret.name = ReverseOctets(DnsInput) \o Suffix4

\* The n-th of the 32 hex nibbles of a 16-byte address, first byte first
\* and high nibble first.
HexNibble(b, n) ==
    IF n % 2 = 1 THEN b[(n + 1) \div 2] \div 16 ELSE b[n \div 2] % 16

\* The 32 nibbles from the last word to the first and, in each word, from
\* the least significant to the most significant, which is from the last
\* nibble of the address to the first, joined by single dots.
ReverseNibbles(b) ==
    [n \in 1..63 |->
        IF n % 2 = 1 THEN hexDigit[HexNibble(b, 33 - (n + 1) \div 2) + 1]
        ELSE "."]

\* An IPv4 address in its 16-byte form (::ffff:a.b.c.d).
IsIPv4Mapped(b) ==
    /\ Len(b) = 16
    /\ SubSeq(b, 1, 12) = <<0, 0, 0, 0, 0, 0, 0, 0, 0, 0, 255, 255>>

\* C14 as stated: for every 16-byte address the encoder returns the 32
\* reversed nibbles joined by dots, followed by .origin6.asn.cymru.com.
C14_SixteenByteName ==
    (dop = "getLookupName" /\ Len(DnsInput) = 16)
        => /\ ~dret.panic
           /\ dret.err = NoErr
           /\ dret.name = ReverseNibbles(DnsInput) \o Suffix6

\* C14 amended: the same for every 16-byte address that is not the 16-byte
\* form of an IPv4 address.
C14_SixteenByteNameV6 ==
    (dop = "getLookupName" /\ Len(DnsInput) = 16 /\ ~IsIPv4Mapped(DnsInput))
        => /\ ~dret.panic
           /\ dret.err = NoErr
           /\ dret.name = ReverseNibbles(DnsInput) \o Suffix6

\* C14 witness: the encoder returned the name of 2001:db8::1.
C14_Witness ==
    /\ dop = "getLookupName"
    /\ DnsInput = IPv6Doc
    /\ dret.err = NoErr
    /\ Len(dret.name) = 63 + Len(Suffix6)

\* C15: the directory resolver's LookupIP on an address whose length is
\* neither 4 nor 16 returns the length error, with no record, and issues no
\* DNS query.
C15_BadLengthRejected ==
    (dop = "LookupIP" /\ Len(DnsInput) \notin {4, 16})
        => /\ dret.err = ErrInvalidLength
           /\ dret.rec = <<>>
           /\ dans = <<>>

\* The trimmed fields of the first TXT string of an answer.
AnswerValues(answer) == TrimValues(Split(answer.txts[1], Pipe))

HasTXT(answer) == ~answer.err /\ answer.txts /= <<>>

\* The origin record of an answer parses: 5 fields, a number, a known
\* country code, a CIDR range and a date that is empty or a calendar date.
OriginParses(answer) ==
    /\ HasTXT(answer)
    /\ TokenCount(answer.txts[1]) = 5
    /\ Atoi(AnswerValues(answer)[1]).ok
    /\ ParseCIDR(AnswerValues(answer)[2]).ok
    /\ NewCountryFromCode(AnswerValues(answer)[3]).ok
    /\ AnswerValues(answer)[5] \in {<<>>} \cup ValidDates

\* C16: an address lookup of the directory resolver asks the origin zone
\* first and the ASN zone, about the number of the origin record, only when
\* that record parsed; it returns a record only when both lookups succeed,
\* and an error and no record when the origin zone has no TXT record, when
\* the record has not 5 fields, and when the chained lookup fails.
C16_ChainedLookup ==
    dop = "LookupIP" =>
        /\ Len(dans) <= 2
        /\ dret.rec /= <<>> <=> dret.err = NoErr
        /\ Len(dans) = 2 =>
              /\ OriginParses(dans[1].answer)
              /\ dans[2].name
                    = ASNName(Atoi(AnswerValues(dans[1].answer)[1]).val)
        /\ dret.rec /= <<>> =>
              /\ Len(dans) = 2
              /\ DnsLookupASN(dret.rec[1].ASN, dans[2].answer).err = NoErr
              /\ dret.rec[1].Name = AnswerValues(dans[2].answer)[5]
        /\ (Len(dans) >= 1 /\ ~dans[1].answer.err
                /\ dans[1].answer.txts = <<>>)
              => (dret.err /= NoErr /\ Len(dans) = 1)
        /\ (Len(dans) >= 1 /\ HasTXT(dans[1].answer)
                /\ TokenCount(dans[1].answer.txts[1]) /= 5)
              => (dret.err /= NoErr /\ Len(dans) = 1)
        /\ (Len(dans) = 2 /\ ~HasTXT(dans[2].answer)) => dret.err /= NoErr
        /\ (Len(dans) = 2 /\ HasTXT(dans[2].answer)
                /\ TokenCount(dans[2].answer.txts[1]) /= 5)
              => dret.err /= NoErr

\* C16 witness: the origin record parsed, the chained query was issued and
\* got no usable answer, and the lookup returned an error and no record.
C16_Witness ==
    /\ dop = "LookupIP"
    /\ Len(dans) = 2
    /\ OriginParses(dans[1].answer)
    /\ ~HasTXT(dans[2].answer)
    /\ dret.err /= NoErr
    /\ dret.rec = <<>>

\* The ASN-zone record of an answer is well formed but for its date, which
\* is empty or not a calendar date.
ZoneRecordUndated(answer) ==
    /\ HasTXT(answer)
    /\ TokenCount(answer.txts[1]) = 5
    /\ NewCountryFromCode(AnswerValues(answer)[2]).ok
    /\ AnswerValues(answer)[4] \notin ValidDates

\* The same of an origin record.
OriginRecordUndated(answer) ==
    /\ HasTXT(answer)
    /\ TokenCount(answer.txts[1]) = 5
    /\ Atoi(AnswerValues(answer)[1]).ok
    /\ ParseCIDR(AnswerValues(answer)[2]).ok
    /\ NewCountryFromCode(AnswerValues(answer)[3]).ok
    /\ AnswerValues(answer)[5] \notin ValidDates

\* C17: an empty or malformed allocation date is no error in any lookup of
\* either resolver: a record well formed but for its date still gives the
\* lookup's record, with no allocated date.  The session resolver is taken
\* on the text of the ASN zone's record, which has its ASN-mode schema.
C17_DateNeverAnError ==
    /\ (dop = "LookupASN" /\ ZoneRecordUndated(dans[1].answer))
          => /\ dret.err = NoErr
             /\ dret.rec /= <<>>
             /\ dret.rec[1].Allocated = <<>>
    /\ (dop = "LookupASN" /\ ZoneRecordUndated(dans[1].answer)
            /\ Atoi(AnswerValues(dans[1].answer)[1]).ok)
          => /\ LookupASNsBody(dans[1].answer.txts[1], <<>>, 1).err = NoErr
             /\ ParsedRecord("LookupASNs",
                             dans[1].answer.txts[1]).Allocated = <<>>
    /\ (dop = "LookupIP" /\ dans /= <<>>
            /\ OriginRecordUndated(dans[1].answer))
          => /\ Len(dans) = 2
             /\ DnsLookupASN(Atoi(AnswerValues(dans[1].answer)[1]).val,
                             dans[2].answer).err = NoErr
                   => /\ dret.err = NoErr
                      /\ dret.rec /= <<>>
                      /\ dret.rec[1].Allocated = <<>>

\* The records a call of the directory resolver handed to its caller.
DnsRecords ==
    {dret.resp[i] : i \in DOMAIN dret.resp} \cup
        {dret.rec[i] : i \in DOMAIN dret.rec}

\* C18: every record a lookup returns to its caller, with or without an
\* error beside it, has asn > 0.
C18_PositiveASN == \A r \in DnsRecords : r.ASN > 0

\* The result of the single lookup of the i-th input of a batch, which
\* when the lookups before it succeeded got the answers dans holds for it.
SingleLookup(i) ==
    IF dop = "LookupIPs"
    THEN DnsLookupIP(dargs[i], dans[2 * i - 1].answer, dans[2 * i].answer)
    ELSE DnsLookupASN(dargs[i], dans[i].answer)

\* C19: a batch of the directory resolver whose lookups all succeed returns
\* as many records as it got inputs, the i-th the result of the single
\* lookup of the i-th input; when a lookup fails it returns the error and
\* only the results of the lookups before that one.
C19_BatchOfSingles ==
    dop \in {"LookupIPs", "LookupASNs"} =>
        /\ dret.err = NoErr => Len(dret.resp) = Len(dargs)
        /\ dret.err /= NoErr => Len(dret.resp) < Len(dargs)
        /\ \A i \in DOMAIN dret.resp : dret.resp[i] = SingleLookup(i).rec[1]

\* What the session resolver's ASN-mode read loop makes of the line raw
\* when it answers the only query of a batch.
SessionASN(raw) == LookupASNsBody(raw, <<>>, 1)

\* The fields two records of an ASN-mode lookup are compared in.
SameASNRecord(r, s) ==
    /\ r.ASN = s.ASN
    /\ r.Country = s.Country
    /\ r.Registry = s.Registry
    /\ r.Allocated = s.Allocated
    /\ r.Name = s.Name

\* C20: on the same ASN-mode text, one line of 5 fields answering the query
\* for a number, the LookupASN of the session resolver and that of the
\* directory resolver both return an error, or both return a record, the
\* two equal in asn, country, registry, allocated and name.
C20_SameOutcome ==
    (/\ dop = "LookupASN"
     /\ HasTXT(dans[1].answer)
     /\ TokenCount(dans[1].answer.txts[1]) = 5)
    => \/ /\ SessionASN(dans[1].answer.txts[1]).err /= NoErr
          /\ dret.err /= NoErr
       \/ /\ SessionASN(dans[1].answer.txts[1]).err = NoErr
          /\ dret.err = NoErr
          /\ SameASNRecord(SessionASN(dans[1].answer.txts[1]).resp[1],
                           dret.rec[1])

====
